---- MODULE Spec2Model ----
(***************************************************************************)
(* The torque acquisition pipeline of the Torque Testing application:      *)
(* the GUI thread of ModernTorqueApp (start_test, stop_test, the profile   *)
(* combo box, process_reading), the SerialReaderWorker threads running     *)
(* read_from_serial, and the queued reading_signal deliveries between      *)
(* them.                                                                   *)
(*                                                                         *)
(* Numbers.  A torque value is kept in tenths (2.0 is 20), so every        *)
(* reading and every range bound of the model has one decimal place.  The  *)
(* distance of a fit is kept in twentieths (see FitDiff), so the half of   *)
(* a midpoint stays an integer.                                            *)
(*                                                                         *)
(* Text.  A serial line is the sequence of its characters.  A range        *)
(* string is the sequence of its tokens, a number or a dash; blanks are    *)
(* left out because parse_range strips every part before converting it.    *)
(***************************************************************************)
EXTENDS Integers, Sequences, FiniteSets, TLC

\* Worker objects (sessions with a port) the model lets start_test create.
MaxWorkers == 2

\* Lines with a torque value the serial source delivers, over all workers
\* together.
MaxReads == 3

\* The number of accepted readings a band list may hold.
Cap == 5

Workers == 1 .. MaxWorkers

-----------------------------------------------------------------------------
(* serial_reader.py: the pure functions                                    *)

Num(n) == [k |-> "num", v |-> n]

Dash == [k |-> "dash", v |-> 0]

\* The text "lo - hi" of an allowance column.
RangeText(lo, hi) == <<Num(lo), Dash, Num(hi)>>

DashAt(s) == {i \in DOMAIN s : s[i].k = "dash"}

Min(S) == CHOOSE x \in S : \A y \in S : x <= y

\* float(part.strip()) succeeds on a part that is one number and nothing else.
IsFloatPart(p) == Len(p) = 1 /\ p[1].k = "num"

NoRange == [ok |-> FALSE, low |-> 0, high |-> 0]

\* range_str.split('-') has two parts exactly when the text has one dash: the
\* text before the dash and the text after it.
parse_range(range_str) ==
    LET dashes == DashAt(range_str)
        dash == CHOOSE i \in dashes : TRUE
        low == SubSeq(range_str, 1, dash - 1)
        high == SubSeq(range_str, dash + 1, Len(range_str))
    IN  IF Cardinality(dashes) # 1
        THEN NoRange
        ELSE IF IsFloatPart(low) /\ IsFloatPart(high)
             THEN [ok |-> TRUE, low |-> low[1].v, high |-> high[1].v]
             ELSE NoRange

\* within_allowance as a test that leaves the two bounds out.
WithinExclusive(target, range_str) ==
    LET r == parse_range(range_str)
    IN  IF ~r.ok THEN FALSE ELSE r.low < target /\ target < r.high

within_allowance(target, range_str) ==
    LET r == parse_range(range_str)
    IN  IF ~r.ok THEN FALSE ELSE r.low <= target /\ target <= r.high

Digits == {"0", "1", "2", "3", "4", "5", "6", "7", "8", "9"}

DigitVal(c) ==
    CASE c = "0" -> 0 [] c = "1" -> 1 [] c = "2" -> 2 [] c = "3" -> 3
      [] c = "4" -> 4 [] c = "5" -> 5 [] c = "6" -> 6 [] c = "7" -> 7
      [] c = "8" -> 8 [] c = "9" -> 9

\* The characters of the class [\d.]
NumChars == Digits \cup {"."}

RECURSIVE SkipToNum(_)
SkipToNum(s) ==
    IF s = <<>> \/ Head(s) \in NumChars THEN s ELSE SkipToNum(Tail(s))

RECURSIVE TakeNum(_)
TakeNum(s) ==
    IF s = <<>> \/ Head(s) \notin NumChars
    THEN <<>>
    ELSE <<Head(s)>> \o TakeNum(Tail(s))

\* re.search(r"([\d.]+)", line): the first maximal run of digits and points,
\* the empty sequence when there is no match.
RegexSearch(text) == TakeNum(SkipToNum(text))

DotAt(t) == {i \in DOMAIN t : t[i] = "."}

\* float(text) raises ValueError unless text has a digit and at most one point.
FloatOk(t) == Cardinality(DotAt(t)) <= 1 /\ \E i \in DOMAIN t : t[i] \in Digits

RECURSIVE DigitsValue(_)
DigitsValue(t) ==
    IF t = <<>>
    THEN 0
    ELSE 10 * DigitsValue(SubSeq(t, 1, Len(t) - 1)) + DigitVal(t[Len(t)])

\* float(text) in tenths, for a text with at most one decimal place.
FloatTenths(t) ==
    LET d == IF DotAt(t) = {} THEN Len(t) + 1 ELSE Min(DotAt(t))
    IN  10 * DigitsValue(SubSeq(t, 1, d - 1))
        + (IF d < Len(t) THEN DigitVal(t[d + 1]) ELSE 0)

NoValue == [ok |-> FALSE, v |-> 0]

parse_torque_value(text) ==
    LET m == RegexSearch(text)
    IN  IF m = <<>>
        THEN NoValue
        ELSE IF FloatOk(m) THEN [ok |-> TRUE, v |-> FloatTenths(m)] ELSE NoValue

Abs(x) == IF x < 0 THEN -x ELSE x

\* abs(mid - target) with mid = (low + high) / 2.0, in twentieths.
FitDiff(low, high, target) == Abs((low + high) - 2 * target)

\* The dict appended for band i.
Fit(target, row, i) ==
    LET r == parse_range(row.allowance[i])
    IN  [row |-> row,
         allowance_index |-> i,
         range_str |-> row.allowance[i],
         diff |-> FitDiff(r.low, r.high, target)]

\* fits after the passes 1 .. i of "for i in range(1, 4)": the test of
\* within_allowance, then of the parsed bounds.
RECURSIVE Appended(_, _, _)
Appended(target, row, i) ==
    IF i = 0
    THEN <<>>
    ELSE Appended(target, row, i - 1)
         \o (IF within_allowance(target, row.allowance[i])
                   /\ parse_range(row.allowance[i]).ok
             THEN <<Fit(target, row, i)>>
             ELSE <<>>)

\* fits.sort(key=lambda x: x["diff"]): the fits in ascending diff; the sort is
\* stable, and the fits were appended in the order of their band, so that of
\* two fits with the same diff the one of the lower band comes first.
\* fits.sort as a sort that leaves the list as it is.
AppendOrder(fits) == fits

SortByDiff(fits) ==
    CHOOSE s \in [1 .. Len(fits) -> {fits[i] : i \in 1 .. Len(fits)}] :
        \A a, b \in 1 .. Len(s) :
            a < b =>
                \/ s[a].diff < s[b].diff
                \/ /\ s[a].diff = s[b].diff
                   /\ s[a].allowance_index < s[b].allowance_index

find_fits_in_selected_row(target, row) ==
    SortByDiff(Appended(target, row, 3))

-----------------------------------------------------------------------------
(* The state                                                               *)

VARIABLES
    torque_table,      \* the rows of TorqueTable, as get_torque_table returns them
    serial_ports,      \* what get_serial_ports returns
    inserted,          \* the insert_raw_data calls of the last process_reading, in order
    results_by_range,  \* ModernTorqueApp.results_by_range: range string -> readings
    selected_row,      \* ModernTorqueApp.selected_row, NoRow for None
    serial_worker,     \* ModernTorqueApp.serial_worker: a worker, 0 for None
    max_torque_combo,  \* current index of the profile combo box, -1 for none
    port_combo,        \* current text of the port combo box
    start_btn,         \* "Begin Test" is enabled
    stop_btn,          \* "End Test" is enabled
    statusBar,         \* the message of the status bar
    warnings,          \* the texts QMessageBox.warning has shown
    gui,               \* the GUI thread: "idle" in its event loop, "wait" inside wait(2000)
    queue,             \* reading_signal emissions posted to the GUI thread, not yet delivered
    worker,            \* the SerialReaderWorker objects and their threads
    nWorkers,          \* how many workers start_test has created
    reads,             \* lines with a value delivered by the serial source so far
    call               \* the last call of a function made from outside a session

dbVars == <<torque_table, serial_ports, inserted>>

selVars == <<selected_row, max_torque_combo>>

btnVars == <<start_btn, stop_btn, statusBar>>

wVars == <<worker, nWorkers, reads>>

vars == <<torque_table, serial_ports, inserted, results_by_range, selected_row, serial_worker,
          max_torque_combo, port_combo, start_btn, stop_btn, statusBar,
          warnings, gui, queue, worker, nWorkers, reads, call>>

\* self.selected_row = None
NoRow == [id |-> 0, allowance |-> <<>>]

\* Two entries as add_entry stores them (the store constrains nothing).  In
\* the first a reading of 2.0 is on the lower end of band 1 and in the middle
\* of bands 2 and 3, which have one range string.  In the second no band
\* holds 2.0, and the third allowance is empty.
StoredRows ==
    << [id |-> 1,
        allowance |-> <<RangeText(20, 50), RangeText(10, 30), RangeText(10, 30)>>],
       [id |-> 2,
        allowance |-> <<RangeText(30, 50), RangeText(60, 70), <<>> >>] >>

\* What the device sends: the reading "T 2.0", the status text "OK", and a
\* "." alone, which the pattern matches and float() rejects.
Lines == { <<"T", " ", "2", ".", "0">>, <<"O", "K">>, <<".">> }

\* port_combo.addItems(ports): the current text is the first port, if any.
FirstPort(ports) == IF ports = <<>> THEN "" ELSE ports[1]

\* A dict with no key.
EmptyDict == [k \in {} |-> <<>>]

\* dict.get(key, [])
Get(d, key) == IF key \in DOMAIN d THEN d[key] ELSE <<>>

\* d[key] = value
Put(d, key, value) ==
    [k \in DOMAIN d \cup {key} |-> IF k = key THEN value ELSE d[k]]

\* torque_value of the loop when parse_torque_value returned None.
NoTorque == -1

\* A worker slot that start_test has not filled yet.
NoWorker ==
    [pc |-> "none", port |-> "", selected_row |-> NoRow, stop_event |-> FALSE,
     ser |-> "unopened", torque_value |-> 0, console |-> <<>>]

\* No call has been made.
NoCall == [fn |-> "none"]

Init ==
    /\ torque_table = StoredRows
    /\ serial_ports \in {<<>>, <<"COM1">>}
    /\ inserted = <<>>
    /\ results_by_range = EmptyDict
    /\ selected_row = torque_table[1]
    /\ serial_worker = 0
    /\ max_torque_combo = 0
    /\ port_combo = FirstPort(serial_ports)
    /\ start_btn = TRUE
    /\ stop_btn = FALSE
    /\ statusBar = ""
    /\ warnings = {}
    /\ gui = "idle"
    /\ queue = <<>>
    /\ worker = [w \in Workers |-> NoWorker]
    /\ nWorkers = 0
    /\ reads = 0
    /\ call = NoCall

-----------------------------------------------------------------------------
(* The worker thread: SerialReaderWorker.run and read_from_serial          *)

\* serial.Serial(port, baudrate, timeout=1) succeeds and the loop is entered.
OpenPort(w) ==
    /\ worker[w].pc = "open"
    /\ worker' = [worker EXCEPT ![w].ser = "open", ![w].pc = "check"]
    /\ UNCHANGED <<call, dbVars, results_by_range, selVars, serial_worker, port_combo,
                   btnVars, warnings, gui, queue, nWorkers, reads>>

\* serial.Serial raises SerialException: the text is printed and
\* read_from_serial returns, and with it run.
OpenFails(w) ==
    /\ worker[w].pc = "open"
    /\ worker' = [worker EXCEPT
                    ![w].ser = "failed",
                    ![w].console = Append(@, "Could not open serial port"),
                    ![w].pc = "done"]
    /\ UNCHANGED <<call, dbVars, results_by_range, selVars, serial_worker, port_combo,
                   btnVars, warnings, gui, queue, nWorkers, reads>>

\* LoopCheck as a loop that never looks at stop_event.
LoopCheckIgnoresStop(w) ==
    /\ worker[w].pc = "check"
    /\ worker' = [worker EXCEPT ![w].torque_value = 0, ![w].pc = "read"]
    /\ UNCHANGED <<call, dbVars, results_by_range, selVars, serial_worker, port_combo,
                   btnVars, warnings, gui, queue, nWorkers, reads>>

\* The top of the loop: break when stop_event is set, and then finally
\* ser.close(); otherwise go on to readline.  The torque_value of the pass
\* before is not read again.
LoopCheck(w) ==
    /\ worker[w].pc = "check"
    /\ worker' = IF worker[w].stop_event
                 THEN [worker EXCEPT ![w].torque_value = 0,
                                     ![w].ser = "closed", ![w].pc = "done"]
                 ELSE [worker EXCEPT ![w].torque_value = 0, ![w].pc = "read"]
    /\ UNCHANGED <<call, dbVars, results_by_range, selVars, serial_worker, port_combo,
                   btnVars, warnings, gui, queue, nWorkers, reads>>

\* ReadLine as a loop that reads again, without a look at stop_event, after a
\* line without a value.
ReadLineRetries(w) ==
    /\ worker[w].pc = "read"
    /\ \E text \in Lines :
          LET torque_value == parse_torque_value(text)
          IN  IF torque_value.ok
              THEN /\ reads < MaxReads
                   /\ reads' = reads + 1
                   /\ worker' = [worker EXCEPT
                                    ![w].torque_value = torque_value.v,
                                    ![w].pc = "callback"]
              ELSE /\ reads' = reads
                   /\ worker' = [worker EXCEPT ![w].torque_value = NoTorque]
    /\ UNCHANGED <<call, dbVars, results_by_range, selVars, serial_worker, port_combo,
                   btnVars, warnings, gui, queue, nWorkers>>

\* ReadLine as a loop that hands 0.0 to the callback for a line without a
\* value.
ReadLineZero(w) ==
    /\ worker[w].pc = "read"
    /\ \E text \in Lines :
          LET torque_value == parse_torque_value(text)
          IN  IF torque_value.ok
              THEN /\ reads < MaxReads
                   /\ reads' = reads + 1
                   /\ worker' = [worker EXCEPT
                                    ![w].torque_value = torque_value.v,
                                    ![w].pc = "callback"]
              ELSE /\ reads' = reads
                   /\ worker' = [worker EXCEPT
                                    ![w].torque_value = 0,
                                    ![w].pc = "callback"]
    /\ UNCHANGED <<call, dbVars, results_by_range, selVars, serial_worker, port_combo,
                   btnVars, warnings, gui, queue, nWorkers>>

\* readline returns a line of the device: it is parsed, and a value goes to
\* the callback; a line without a value is dropped, and after the sleep the
\* loop is at its top again.
ReadLine(w) ==
    /\ worker[w].pc = "read"
    /\ \E text \in Lines :
          LET torque_value == parse_torque_value(text)
          IN  IF torque_value.ok
              THEN /\ reads < MaxReads
                   /\ reads' = reads + 1
                   /\ worker' = [worker EXCEPT
                                    ![w].torque_value = torque_value.v,
                                    ![w].pc = "callback"]
              ELSE /\ reads' = reads
                   /\ worker' = [worker EXCEPT
                                    ![w].torque_value = NoTorque,
                                    ![w].pc = "check"]
    /\ UNCHANGED <<call, dbVars, results_by_range, selVars, serial_worker, port_combo,
                   btnVars, warnings, gui, queue, nWorkers>>

\* readline returns nothing within the timeout of one second.
ReadTimeout(w) ==
    /\ worker[w].pc = "read"
    /\ worker' = [worker EXCEPT ![w].pc = "check"]
    /\ UNCHANGED <<call, dbVars, results_by_range, selVars, serial_worker, port_combo,
                   btnVars, warnings, gui, queue, nWorkers, reads>>

\* readline raises (the device is gone): except prints, finally closes.
ReadFails(w) ==
    /\ worker[w].pc = "read"
    /\ worker' = [worker EXCEPT
                    ![w].console = Append(@, "Error in serial reading"),
                    ![w].ser = "closed",
                    ![w].pc = "done"]
    /\ UNCHANGED <<call, dbVars, results_by_range, selVars, serial_worker, port_combo,
                   btnVars, warnings, gui, queue, nWorkers, reads>>

\* callback(torque_value), its first statement: return when stop_event is
\* set, and the loop sleeps and is at its top again.
Callback(w) ==
    /\ worker[w].pc = "callback"
    /\ worker' = IF worker[w].stop_event
                 THEN [worker EXCEPT ![w].torque_value = 0, ![w].pc = "check"]
                 ELSE [worker EXCEPT ![w].pc = "emit"]
    /\ UNCHANGED <<call, dbVars, results_by_range, selVars, serial_worker, port_combo,
                   btnVars, warnings, gui, queue, nWorkers, reads>>

\* The reading_signal emission of worker w: the receiver lives in the GUI
\* thread, so the call is posted to its event queue.
Emission(w) ==
    [w |-> w, value |-> worker[w].torque_value,
     fits |-> find_fits_in_selected_row(worker[w].torque_value,
                                        worker[w].selected_row)]

\* Emit as a callback that emits only a reading that fits a band.
EmitOnlyFits(w) ==
    /\ worker[w].pc = "emit"
    /\ queue' = IF Emission(w).fits = <<>> THEN queue
                ELSE Append(queue, Emission(w))
    /\ worker' = [worker EXCEPT ![w].torque_value = 0, ![w].pc = "check"]
    /\ UNCHANGED <<call, dbVars, results_by_range, selVars, serial_worker, port_combo,
                   btnVars, warnings, gui, nWorkers, reads>>

\* callback, the rest: the fits of the value in the worker's row, then
\* reading_signal.emit(target_torque, fits).
Emit(w) ==
    /\ worker[w].pc = "emit"
    /\ queue' = Append(queue, Emission(w))
    /\ worker' = [worker EXCEPT ![w].torque_value = 0, ![w].pc = "check"]
    /\ UNCHANGED <<call, dbVars, results_by_range, selVars, serial_worker, port_combo,
                   btnVars, warnings, gui, nWorkers, reads>>

\* CallbackRaises without the finally clause: the port stays open.
CallbackRaisesNoClose(w) ==
    /\ worker[w].pc = "emit"
    /\ worker' = [worker EXCEPT
                    ![w].console = Append(@, "Error in serial reading"),
                    ![w].pc = "done"]
    /\ UNCHANGED <<call, dbVars, results_by_range, selVars, serial_worker, port_combo,
                   btnVars, warnings, gui, queue, nWorkers, reads>>

\* The callback raises after its check of stop_event (in
\* find_fits_in_selected_row or in emit): the except clause of
\* read_from_serial prints, finally closes the port, nothing is emitted.
CallbackRaises(w) ==
    /\ worker[w].pc = "emit"
    /\ worker' = [worker EXCEPT
                    ![w].console = Append(@, "Error in serial reading"),
                    ![w].ser = "closed",
                    ![w].pc = "done"]
    /\ UNCHANGED <<call, dbVars, results_by_range, selVars, serial_worker, port_combo,
                   btnVars, warnings, gui, queue, nWorkers, reads>>

WorkerStep(w) ==
    \/ OpenPort(w)
    \/ OpenFails(w)
    \/ LoopCheck(w)
    \/ ReadLine(w)
    \/ ReadTimeout(w)
    \/ ReadFails(w)
    \/ Callback(w)
    \/ Emit(w)

-----------------------------------------------------------------------------
(* The GUI thread: ModernTorqueApp                                         *)

\* The record insert_raw_data is called with.
RawRow(target_torque, fit, row) ==
    [torque_value |-> target_torque,
     torque_table_id |-> row.id,
     allowance_label |-> fit.allowance_index,
     range_str |-> fit.range_str]

\* AcceptFit without the test of the length.
AcceptFitNoCap(st, target_torque, fit, row) ==
    [results |-> Put(st.results, fit.range_str,
                     Append(Get(st.results, fit.range_str), target_torque)),
     raw |-> Append(st.raw, RawRow(target_torque, fit, row))]

\* AcceptFit with insert_raw_data called before the test of the length.
AcceptFitAlwaysInsert(st, target_torque, fit, row) ==
    LET current_results == Get(st.results, fit.range_str)
    IN  [results |-> IF Len(current_results) < Cap
                     THEN Put(st.results, fit.range_str,
                              Append(current_results, target_torque))
                     ELSE st.results,
         raw |-> Append(st.raw, RawRow(target_torque, fit, row))]

\* One pass of the loop "for fit in fits" of process_reading, on the pair of
\* results_by_range and the insert_raw_data calls made so far.
AcceptFit(st, target_torque, fit, row) ==
    LET allowance_key == fit.range_str
        current_results == Get(st.results, allowance_key)
    IN  IF Len(current_results) < Cap
        THEN [results |-> Put(st.results, allowance_key,
                              Append(current_results, target_torque)),
              raw |-> Append(st.raw, RawRow(target_torque, fit, row))]
        ELSE st

\* AcceptFits as a loop that ends at the first fit whose list is full.
RECURSIVE AcceptFitsUntilFull(_, _, _, _)
AcceptFitsUntilFull(st, target_torque, fits, row) ==
    IF fits = <<>> \/ Len(Get(st.results, Head(fits).range_str)) >= Cap
    THEN st
    ELSE AcceptFitsUntilFull(AcceptFit(st, target_torque, Head(fits), row),
                             target_torque, Tail(fits), row)

\* for fit in fits: every fit of the list, in its order.
RECURSIVE AcceptFits(_, _, _, _)
AcceptFits(st, target_torque, fits, row) ==
    IF fits = <<>>
    THEN st
    ELSE AcceptFits(AcceptFit(st, target_torque, Head(fits), row),
                    target_torque, Tail(fits), row)

\* self.selected_row["id"] raises TypeError: no row is selected and a fit of
\* the reading finds its list with room, so that insert_raw_data is called.
LookupFails(fits) ==
    /\ selected_row = NoRow
    /\ \E j \in 1 .. Len(fits) : Len(Get(results_by_range, fits[j].range_str)) < Cap

\* The delivery of the oldest queued emission to process_reading, when the
\* lookup of the id raises: nothing was appended or inserted before it, and
\* the exception leaves the slot, which ends the application.
ProcessReadingFails ==
    /\ gui = "idle"
    /\ queue # <<>>
    /\ LookupFails(Head(queue).fits)
    /\ gui' = "TypeError"
    /\ queue' = Tail(queue)
    /\ inserted' = <<>>
    /\ UNCHANGED <<call, torque_table, serial_ports, results_by_range, selVars,
                   serial_worker, port_combo, btnVars, warnings, wVars>>

\* The fits of a reading before fit k, taken by the loop of process_reading.
Before(fits, k) ==
    AcceptFits([results |-> results_by_range, raw |-> <<>>],
               Head(queue).value, SubSeq(fits, 1, k - 1), selected_row)

\* InsertFails as a loop that appends the value before it calls
\* insert_raw_data.
InsertFailsAfterAppend(k) ==
    /\ gui = "idle"
    /\ queue # <<>>
    /\ selected_row # NoRow
    /\ k \in 1 .. Len(Head(queue).fits)
    /\ LET fit == Head(queue).fits[k]
           st == Before(Head(queue).fits, k)
       IN  /\ Len(Get(st.results, fit.range_str)) < Cap
           /\ results_by_range' =
                  Put(st.results, fit.range_str,
                      Append(Get(st.results, fit.range_str), Head(queue).value))
           /\ inserted' = st.raw
    /\ gui' = "IOException"
    /\ queue' = Tail(queue)
    /\ UNCHANGED <<call, torque_table, serial_ports, selVars, serial_worker,
                   port_combo, btnVars, warnings, wVars>>

\* The delivery of the oldest queued emission to process_reading, when
\* insert_raw_data raises for fit k (the store cannot be opened or written):
\* the fits before k are taken, the value of fit k is not appended, and the
\* exception leaves the slot, which ends the application.
InsertFails(k) ==
    /\ gui = "idle"
    /\ queue # <<>>
    /\ selected_row # NoRow
    /\ k \in 1 .. Len(Head(queue).fits)
    /\ LET fit == Head(queue).fits[k]
           st == Before(Head(queue).fits, k)
       IN  /\ Len(Get(st.results, fit.range_str)) < Cap
           /\ results_by_range' = st.results
           /\ inserted' = st.raw
    /\ gui' = "IOException"
    /\ queue' = Tail(queue)
    /\ UNCHANGED <<call, torque_table, serial_ports, selVars, serial_worker,
                   port_combo, btnVars, warnings, wVars>>

\* The delivery of the oldest queued emission to process_reading.
ProcessReading ==
    /\ gui = "idle"
    /\ queue # <<>>
    /\ ~LookupFails(Head(queue).fits)
    /\ LET ev == Head(queue)
           st == AcceptFits([results |-> results_by_range, raw |-> <<>>],
                            ev.value, ev.fits, selected_row)
       IN  /\ results_by_range' = st.results
           /\ inserted' = st.raw
    /\ queue' = Tail(queue)
    /\ UNCHANGED <<call, torque_table, serial_ports, selVars, serial_worker,
                   port_combo, btnVars,
                   warnings, gui, wVars>>

\* display_pre_test_rows: the lists are dropped unless no row is selected.
display_pre_test_rows ==
    results_by_range' = IF selected_row' = NoRow THEN results_by_range
                        ELSE EmptyDict

\* The user picks entry index of the combo box: on_max_torque_combo_changed.
ComboChanged(index) ==
    /\ gui = "idle"
    /\ index \in 0 .. Len(torque_table) - 1
    /\ index # max_torque_combo
    /\ max_torque_combo' = index
    /\ selected_row' = torque_table[index + 1]
    /\ display_pre_test_rows
    /\ UNCHANGED <<call, dbVars, serial_worker, port_combo, btnVars, warnings, gui,
                   queue, wVars>>

\* SerialReaderWorker(port, self.selected_row) and start(): the next slot.
NewWorker ==
    [pc |-> "open", port |-> port_combo, selected_row |-> selected_row,
     stop_event |-> FALSE, ser |-> "unopened", torque_value |-> 0,
     console |-> <<>>]

\* A click on "Begin Test": start_test.  A worker that is replaced while its
\* thread runs keeps running, its run() holds it.
StartTest ==
    /\ gui = "idle"
    /\ start_btn
    /\ IF selected_row = NoRow
       THEN /\ warnings' = warnings \cup {"No torque entry selected."}
            /\ UNCHANGED <<btnVars, serial_worker, wVars>>
       ELSE /\ start_btn' = FALSE
            /\ stop_btn' = TRUE
            /\ statusBar' = "Test in progress..."
            /\ IF port_combo = ""
               THEN /\ warnings' = warnings \cup {"No serial port selected."}
                    /\ UNCHANGED <<serial_worker, wVars>>
               ELSE /\ nWorkers < MaxWorkers
                    /\ nWorkers' = nWorkers + 1
                    /\ serial_worker' = nWorkers + 1
                    /\ worker' = [worker EXCEPT ![nWorkers + 1] = NewWorker]
                    /\ UNCHANGED <<warnings, reads>>
    /\ UNCHANGED <<call, dbVars, results_by_range, selVars, port_combo, gui, queue>>

\* stop_test from its third statement on: the buttons, the status, the
\* reset of the lists, the ports listed anew, the message box.
StopTestRest ==
    /\ start_btn' = TRUE
    /\ stop_btn' = FALSE
    /\ statusBar' = "Test ended."
    /\ UNCHANGED selVars
    /\ display_pre_test_rows
    /\ port_combo' = FirstPort(serial_ports)
    /\ gui' = "idle"
    /\ UNCHANGED <<call, dbVars, serial_worker, warnings, queue, nWorkers, reads>>

\* A click on "End Test" with a worker: stop() sets its stop_event, and the
\* GUI thread blocks in wait(2000).
StopTest ==
    /\ gui = "idle"
    /\ stop_btn
    /\ serial_worker # 0
    /\ worker' = [worker EXCEPT ![serial_worker].stop_event = TRUE]
    /\ gui' = "wait"
    /\ UNCHANGED <<call, dbVars, results_by_range, selVars, serial_worker, port_combo,
                   btnVars, warnings, queue, nWorkers, reads>>

\* wait(2000) returns because the thread has finished.
WaitReturns ==
    /\ gui = "wait"
    /\ worker[serial_worker].pc = "done"
    /\ StopTestRest
    /\ UNCHANGED worker

\* wait(2000) returns because two seconds have passed: the thread still runs.
WaitTimesOut ==
    /\ gui = "wait"
    /\ worker[serial_worker].pc # "done"
    /\ StopTestRest
    /\ UNCHANGED worker

\* A click on "End Test" when start_test has created no worker yet.
StopTestNoWorker ==
    /\ gui = "idle"
    /\ stop_btn
    /\ serial_worker = 0
    /\ StopTestRest
    /\ UNCHANGED worker

Next ==
    \/ \E w \in Workers : WorkerStep(w)
    \/ ProcessReading
    \/ \E index \in 0 .. 1 : ComboChanged(index)
    \/ StartTest
    \/ StopTest
    \/ WaitReturns
    \/ WaitTimesOut
    \/ StopTestNoWorker

Spec == Init /\ [][Next]_vars

\* Every started thread is scheduled, and every readline returns.
FairSpec == Spec /\ \A w \in Workers : WF_vars(WorkerStep(w))

-----------------------------------------------------------------------------
(* Properties                                                              *)

\* The step that delivers the oldest queued emission to process_reading.
IsDelivery == gui = "idle" /\ queue # <<>> /\ queue' = Tail(queue)

\* The thread of worker w is running.
Running(w) == worker[w].pc \notin {"none", "done"}

FitKeys(fits) == {fits[i].range_str : i \in DOMAIN fits}

FitCount(fits, key) == Cardinality({i \in DOMAIN fits : fits[i].range_str = key})

Repeat(x, n) == [i \in 1 .. n |-> x]

InsertCount(calls, key) ==
    Cardinality({i \in DOMAIN calls : calls[i].range_str = key})

Labels(calls) == [i \in DOMAIN calls |-> calls[i].allowance_label]

\* C1: every list of results_by_range holds at most 5 readings, in every
\* reachable state.
C1_AtMostFivePerBand ==
    \A key \in DOMAIN results_by_range : Len(results_by_range[key]) <= Cap

\* A list has reached the cap.
C1_Witness ==
    \E key \in DOMAIN results_by_range : Len(results_by_range[key]) = Cap

\* The step in which the callback of worker w returns to the loop.
CallbackReturns(w) ==
    worker[w].pc \in {"callback", "emit"} /\ worker'[w].pc = "check"

\* The step posts one emission, of worker w and with the value it has read.
EmittedBy(w) ==
    /\ Len(queue') = Len(queue) + 1
    /\ SubSeq(queue', 1, Len(queue)) = queue
    /\ queue'[Len(queue')].w = w
    /\ queue'[Len(queue')].value = worker[w].torque_value

C3_NoDeliveryAfterStop ==
    [][IsDelivery => ~worker[Head(queue).w].stop_event]_vars

\* C4: a loop that is running when stop_event is set terminates, and its
\* port is closed, given that the thread is scheduled and readline returns.
C4_StoppedLoopTerminates ==
    \A w \in Workers :
        (worker[w].stop_event /\ worker[w].ser = "open")
            ~> (worker[w].pc = "done" /\ worker[w].ser = "closed")

\* A loop has left through the break on stop_event, and its port is closed.
C4_Witness ==
    \E w \in Workers :
        /\ worker[w].stop_event
        /\ worker[w].pc = "done"
        /\ worker[w].ser = "closed"
        /\ worker[w].console = <<>>

\* C5: at most one worker thread is running at any time.
C5_OneLoopAtATime == Cardinality({w \in Workers : Running(w)}) <= 1

\* The GUI shows what it shows for a session in progress, and no warning.
ShowsTestInProgress ==
    /\ ~start_btn
    /\ stop_btn
    /\ statusBar = "Test in progress..."
    /\ warnings = {}

\* C6: when the port of the session cannot be opened, an error is shown to
\* the user who started the test, and no reading of the session is emitted.
C6_OpenFailureSurfaced ==
    \A w \in Workers :
        worker[w].ser = "failed" /\ serial_worker = w /\ ~worker[w].stop_event
            => /\ ~ShowsTestInProgress
               /\ \A i \in DOMAIN queue : queue[i].w # w

\* C7: when a read fails after the port was opened, the loop ends, nothing is
\* emitted for the failed read, and the failure is reported to the consumer.
C7_ReadFailureReported ==
    \A w \in Workers :
        worker[w].console = <<"Error in serial reading">>
            => /\ worker[w].pc = "done"
               /\ worker[w].ser = "closed"
               /\ serial_worker = w /\ ~worker[w].stop_event
                    => ~ShowsTestInProgress

\* C8: a delivery leaves a full list as it was and calls insert_raw_data for
\* none of its fits; to a list with room it appends the value once for each
\* of its fits, up to the cap, with one insert_raw_data call for each value
\* appended; every other list stays as it was.
C8_AcceptanceFrame ==
    [][IsDelivery =>
        LET ev == Head(queue)
            keys == DOMAIN results_by_range \cup DOMAIN results_by_range'
                        \cup FitKeys(ev.fits)
        IN  /\ \A key \in keys :
                  LET before == Get(results_by_range, key)
                      after == Get(results_by_range', key)
                      n == FitCount(ev.fits, key)
                      room == Cap - Len(before)
                      add == IF n < room THEN n ELSE room
                  IN  /\ after = before \o Repeat(ev.value, add)
                      /\ InsertCount(inserted', key) = add
            /\ \A i \in DOMAIN inserted' :
                  /\ inserted'[i].range_str \in FitKeys(ev.fits)
                  /\ inserted'[i].torque_value = ev.value]_vars

\* Three readings with two fits each for one range string have been handled:
\* the list holds 5, and of the last two fits one was inserted.
C8_Witness ==
    \E k1, k2 \in DOMAIN results_by_range :
        /\ Len(results_by_range[k1]) = Cap
        /\ Len(results_by_range[k2]) = 3
        /\ InsertCount(inserted, k1) = 1

\* The fit at place i of the list is taken: its list, with the earlier fits
\* of the delivery for the same range string, is below the cap.
Taken(fits, i) ==
    Len(Get(results_by_range, fits[i].range_str))
        + Cardinality({j \in 1 .. i - 1 : fits[j].range_str = fits[i].range_str})
      < Cap

RECURSIVE TakenLabels(_, _)
TakenLabels(fits, n) ==
    IF n = 0
    THEN <<>>
    ELSE IF Taken(fits, n)
         THEN Append(TakenLabels(fits, n - 1), fits[n].allowance_index)
         ELSE TakenLabels(fits, n - 1)

\* C9: the fits of a delivery are in the order of their distance, each is
\* tried on its own in that order, and the reading is recorded for every fit
\* whose list has room when its turn comes, whether or not another is full.
C9_EachFitOnItsOwn ==
    [][IsDelivery =>
        LET ev == Head(queue)
        IN  /\ \A i, j \in DOMAIN ev.fits :
                  i < j => ev.fits[i].diff <= ev.fits[j].diff
            /\ Labels(inserted') = TakenLabels(ev.fits, Len(ev.fits))
            /\ \A i \in DOMAIN ev.fits :
                  Taken(ev.fits, i) =>
                      Len(Get(results_by_range', ev.fits[i].range_str))
                          > Len(Get(results_by_range, ev.fits[i].range_str))]_vars

\* A delivery with fits of bands 2, 3 and 1, in this order: band 2 took the
\* last place of its list, band 3 found it full, band 1 was recorded.
C9_Witness ==
    /\ Labels(inserted) = <<2, 1>>
    /\ \E key \in DOMAIN results_by_range : Len(results_by_range[key]) = Cap

\* C10: the lists are empty right after the selected profile has changed,
\* and when start_test launches a worker.
C10_EmptyAtChangeAndStart ==
    [][/\ selected_row' # selected_row => results_by_range' = EmptyDict
       /\ nWorkers' # nWorkers => results_by_range = EmptyDict]_vars

\* A session is in progress: start_test has launched a worker, and stop_test
\* has not run to its end since.
InSession == serial_worker # 0 /\ stop_btn /\ ~start_btn

\* C11: while a session is in progress the profile does not change: the row
\* the application aggregates against is the row the worker of the session
\* classifies against, with its three bands.
C11_ProfileFixedInSession ==
    InSession => selected_row = worker[serial_worker].selected_row

-----------------------------------------------------------------------------
(* The entries of the torque table                                         *)

\* A sequence without its element at place i.
Without(seq, i) == SubSeq(seq, 1, i - 1) \o SubSeq(seq, i + 1, Len(seq))

\* delete_entry for the entry at place index of the table: the entry is
\* deleted and load_max_torque_dropdown fills the combo box again.  clear()
\* leaves no row selected; with entries left the first is selected and
\* display_pre_test_rows drops the lists.
DeleteEntry(index) ==
    /\ gui = "idle"
    /\ index \in 1 .. Len(torque_table)
    /\ torque_table' = Without(torque_table, index)
    /\ selected_row' = IF torque_table' = <<>> THEN NoRow ELSE torque_table'[1]
    /\ max_torque_combo' = IF torque_table' = <<>> THEN -1 ELSE 0
    /\ display_pre_test_rows
    /\ UNCHANGED <<call, serial_ports, inserted, serial_worker, port_combo,
                   btnVars, warnings, gui, queue, wVars>>

TableNext ==
    \/ Next
    \/ \E w \in Workers : CallbackRaises(w)
    \/ ProcessReadingFails
    \/ \E k \in 1 .. 3 : InsertFails(k)
    \/ \E index \in 1 .. Len(StoredRows) : DeleteEntry(index)

\* The session, with entries deleted at any time, with calls of
\* insert_raw_data that raise and with callbacks that raise.
TableSpec == Init /\ [][TableNext]_vars

-----------------------------------------------------------------------------
(* The profile functions of modern_torque_app.py, and the calls of the     *)
(* functions from outside a session                                        *)

\* A part of a range string that is no number, as in "abc - 3.0".
Word == [k |-> "word", v |-> 0]

\* PyRound as a conversion that cuts the fraction off.
PyRoundDown(num, den) == num \div den

\* round(x) and round(x, 1) of Python on the quotient num / den, den > 0:
\* the nearest integer, and of two nearest ones the even one.
PyRound(num, den) ==
    LET floor == num \div den
        rest == num % den
    IN  IF 2 * rest > den \/ (2 * rest = den /\ floor % 2 = 1)
        THEN floor + 1
        ELSE floor

\* factors = [0.916, 0.583, 0.333], in thousandths.
factors == <<916, 583, 333>>

\* calc_applied_torques for a whole max_torque: round(raw_val / 10) * 10 for
\* each factor, in the order of the factors.
calc_applied_torques(max_torque) ==
    [i \in 1 .. 3 |-> PyRound(max_torque * factors[i], 10000) * 10]

\* The tolerance of calc_allowance_range as one that is 4% from 10 on only
\* above 10.
ToleranceAboveTen(applied_val) == IF applied_val <= 10 THEN 6 ELSE 4

\* The tolerance of calc_allowance_range, in hundredths.
Tolerance(applied_val) == IF applied_val < 10 THEN 6 ELSE 4

\* f"{x}" for a float x given in tenths: a negative number starts with "-".
FloatText(x) == IF x < 0 THEN <<Dash, Num(-x)>> ELSE <<Num(x)>>

\* calc_allowance_range as a band that ends at applied_val.
AllowanceUpTo(applied_val) ==
    FloatText(PyRound(applied_val * (100 - Tolerance(applied_val)), 10))
        \o <<Dash>> \o FloatText(10 * applied_val)

\* calc_allowance_range for a whole applied_val: low and high rounded to one
\* decimal (kept in tenths), and the text "low - high".
calc_allowance_range(applied_val) ==
    LET tolerance == Tolerance(applied_val)
        low == PyRound(applied_val * (100 - tolerance), 10)
        high == PyRound(applied_val * (100 + tolerance), 10)
    IN  FloatText(low) \o <<Dash>> \o FloatText(high)

\* Every variable but call.
appVars ==
    <<torque_table, serial_ports, inserted, results_by_range, selected_row,
      serial_worker, max_torque_combo, port_combo, start_btn, stop_btn,
      statusBar, warnings, gui, queue, worker, nWorkers, reads>>

\* The readings find_fits_in_selected_row is called with, in tenths.
FitValues == {10, 20, 30, 35, 50}

\* The texts of an allowance column: ranges that overlap, a range of one
\* point, a range with low above high, the empty text, a text without a
\* dash, a text with a word for a number, and a range with a negative low.
BandTexts ==
    { RangeText(20, 50), RangeText(10, 30), RangeText(30, 30),
      RangeText(50, 20), <<>>, <<Num(20)>>, <<Word, Dash, Num(30)>>,
      <<Dash, Num(10), Dash, Num(30)>> }

\* find_fits_in_selected_row(target, row) for a reading and a row.
CallFindFits ==
    /\ call = NoCall
    /\ \E target \in FitValues, allowance \in [1 .. 3 -> BandTexts] :
          LET row == [id |-> 1, allowance |-> allowance]
          IN  call' = [fn |-> "find_fits_in_selected_row",
                       target |-> target,
                       row |-> row,
                       fits |-> find_fits_in_selected_row(target, row)]
    /\ UNCHANGED appVars

\* The greatest max torque the entry dialog is given.
MaxTorque == 320

\* TorqueEntryDialog.auto_fill_applied_from_max for a whole max torque above
\* zero: the call of calc_applied_torques.
CallCalcApplied ==
    /\ call = NoCall
    /\ \E max_torque \in 1 .. MaxTorque :
          call' = [fn |-> "calc_applied_torques",
                   max_torque |-> max_torque,
                   applied_list |-> calc_applied_torques(max_torque)]
    /\ UNCHANGED appVars

\* The applied torques of the JSON list of the entry dialog.
AppliedVals == {-10, 0, 5, 9, 10, 11, 60, 100}

\* TorqueEntryDialog.auto_fill_allowances_from_applied for a list of three
\* whole numbers: calc_allowance_range for each of them.
AutoFillAllowances ==
    /\ call = NoCall
    /\ \E arr \in [1 .. 3 -> AppliedVals] :
          call' = [fn |-> "auto_fill_allowances_from_applied",
                   arr |-> arr,
                   allowance |-> [i \in 1 .. 3 |-> calc_allowance_range(arr[i])]]
    /\ UNCHANGED appVars

\* The lines parse_torque_value is called with: "T 2.0", "OK", ".",
\* "HI 3.5 ft.lb", "ft.lb 3.5", "1.2.3", "7" and "Nm 7.".
TorqueLines ==
    { <<"T", " ", "2", ".", "0">>,
      <<"O", "K">>,
      <<".">>,
      <<"H", "I", " ", "3", ".", "5", " ", "f", "t", ".", "l", "b">>,
      <<"f", "t", ".", "l", "b", " ", "3", ".", "5">>,
      <<"1", ".", "2", ".", "3">>,
      <<"7">>,
      <<"N", "m", " ", "7", ".">> }

\* parse_torque_value(line) for a line of the device.
CallParseTorque ==
    /\ call = NoCall
    /\ \E line \in TorqueLines :
          call' = [fn |-> "parse_torque_value",
                   line |-> line,
                   torque_value |-> parse_torque_value(line)]
    /\ UNCHANGED appVars

\* The function called returns to the event loop.
Return ==
    /\ call # NoCall
    /\ call' = NoCall
    /\ UNCHANGED appVars

FunctionNext ==
    \/ Return
    \/ CallFindFits
    \/ CallCalcApplied
    \/ AutoFillAllowances
    \/ CallParseTorque

\* The calls of the functions, each in the state the application starts in.
FunctionSpec == Init /\ [][FunctionNext]_vars

-----------------------------------------------------------------------------
(* ModernTorqueApp.auto_select_max_torque                                  *)

\* str.lower() on one character; the units that are typed have their capital
\* letters among F, T, L, B, I, N, M.
LowerChar(c) ==
    CASE c = "F" -> "f" []
         c = "T" -> "t" []
         c = "L" -> "l" []
         c = "B" -> "b" []
         c = "I" -> "i" []
         c = "N" -> "n" []
         c = "M" -> "m"
      [] OTHER -> c

\* str.lower()
Lower(s) == [i \in 1 .. Len(s) |-> LowerChar(s[i])]

\* The characters str.strip() removes.
Blank == {" ", "\t", "\n"}

\* str.strip(): the text from its first to its last character that is not
\* blank.
Strip(s) ==
    LET inked == {i \in 1 .. Len(s) : s[i] \notin Blank}
    IN  IF inked = {} THEN <<>>
        ELSE SubSeq(s, Min(inked), CHOOSE i \in inked : \A j \in inked : j <= i)

\* The default of the setting synonyms_ft_lb, split at the commas.
FT_LB_SYNONYMS ==
    { <<"f", "t", "/", "l", "b">>,
      <<"f", "t", "-", "l", "b">>,
      <<"f", "t", ".", "l", "b">>,
      <<"f", "t", " ", "l", "b">>,
      <<"f", "t", "/", "l", "b", "s">>,
      <<"f", "t", "-", "l", "b", "s">>,
      <<"f", "t", ".", "l", "b", "s">>,
      <<"f", "t", " ", "l", "b", "s">> }

\* The default of the setting synonyms_in_lb, split at the commas.
IN_LB_SYNONYMS ==
    { <<"i", "n", "/", "l", "b">>,
      <<"i", "n", "-", "l", "b">>,
      <<"i", "n", ".", "l", "b">>,
      <<"i", "n", " ", "l", "b">>,
      <<"i", "n", "/", "l", "b", "s">>,
      <<"i", "n", "-", "l", "b", "s">>,
      <<"i", "n", ".", "l", "b", "s">>,
      <<"i", "n", " ", "l", "b", "s">> }

\* The default of the setting synonyms_nm, split at the commas.
NM_SYNONYMS ==
    { <<"n", "m">>,
      <<"n", ".", "m">>,
      <<"n", "*", "m">>,
      <<"n", "m", ".">>,
      <<"n", ".", "m", ".">> }

\* ftlb_to_nm: val * 1.35582, a whole val to a number of 0.00001 Nm.
ftlb_to_nm(val) == val * 135582

\* inlb_to_nm: val * 0.113, a whole val to a number of 0.00001 Nm.
inlb_to_nm(val) == val * 11300

\* The normalisation as one that compares the unit as it was typed.
to_nm_as_typed(val, unit) ==
    IF unit \in FT_LB_SYNONYMS THEN ftlb_to_nm(val)
    ELSE IF unit \in IN_LB_SYNONYMS THEN inlb_to_nm(val)
    ELSE val * 100000

\* The normalisation of a whole value with its unit text, written out in
\* auto_select_max_torque for extracted_val and for db_torque: the value in
\* 0.00001 Nm.
to_nm(val, unit) ==
    LET unit_lower == Strip(Lower(unit))
    IN  IF unit_lower \in FT_LB_SYNONYMS THEN ftlb_to_nm(val)
        ELSE IF unit_lower \in IN_LB_SYNONYMS THEN inlb_to_nm(val)
        ELSE IF unit_lower \in NM_SYNONYMS THEN val * 100000
        ELSE val * 100000

\* tolerance_base = max(extracted_val_nm * 0.10, 2.0), in 0.000001 Nm.
tolerance_base(extracted_val_nm) ==
    IF extracted_val_nm > 2000000 THEN extracted_val_nm ELSE 2000000

\* abs(db_torque_nm - extracted_val_nm) <= tolerance_base for a row.
WithinTolerance(row, extracted_val_nm) ==
    10 * Abs(to_nm(row.max_torque, row.unit) - extracted_val_nm)
        <= tolerance_base(extracted_val_nm)

\* The loop as one that takes the row nearest to the extracted value among
\* the rows within tolerance.
NearestMatch(table_data, extracted_val_nm, i) ==
    LET near == {j \in 1 .. Len(table_data) :
                     WithinTolerance(table_data[j], extracted_val_nm)}
        off(j) == Abs(to_nm(table_data[j].max_torque, table_data[j].unit)
                      - extracted_val_nm)
    IN  IF near = {} THEN 0
        ELSE CHOOSE j \in near :
                 \A k \in near : off(j) < off(k) \/ (off(j) = off(k) /\ j <= k)

\* for i, row in enumerate(table_data), from row i on: the first row within
\* tolerance, 0 when the loop ends without one.
RECURSIVE FirstMatch(_, _, _)
FirstMatch(table_data, extracted_val_nm, i) ==
    IF i > Len(table_data) THEN 0
    ELSE IF WithinTolerance(table_data[i], extracted_val_nm) THEN i
    ELSE FirstMatch(table_data, extracted_val_nm, i + 1)

\* db_torque_nm of the rows the loop has gone through: the rows up to the
\* match, all rows when the loop ended without one.
Examined(table_data, match) ==
    [i \in 1 .. (IF match = 0 THEN Len(table_data) ELSE match) |->
        to_nm(table_data[i].max_torque, table_data[i].unit)]

\* auto_select_max_torque as one that clears the selection when no row is
\* within tolerance.
AutoSelectOrClear(extracted_val, extracted_unit) ==
    LET extracted_val_nm == to_nm(extracted_val, extracted_unit)
        match == FirstMatch(torque_table, extracted_val_nm, 1)
    IN  /\ gui = "idle"
        /\ call = NoCall
        /\ call' = [fn |-> "auto_select_max_torque",
                    extracted_val |-> extracted_val,
                    extracted_unit |-> extracted_unit,
                    extracted_val_nm |-> extracted_val_nm,
                    db_torque_nm |-> Examined(torque_table, match),
                    match |-> match]
        /\ IF match = 0
           THEN /\ max_torque_combo' = -1
                /\ selected_row' = NoRow
                /\ results_by_range' = EmptyDict
           ELSE /\ max_torque_combo' = match - 1
                /\ selected_row' = torque_table[match]
                /\ display_pre_test_rows
        /\ UNCHANGED <<dbVars, serial_worker, port_combo, btnVars, warnings, gui,
                       queue, wVars>>

\* auto_select_max_torque(extracted_val, extracted_unit), called with the
\* values read off a picture.  call keeps the arguments and the locals
\* extracted_val_nm, db_torque_nm of each pass of the loop, and i (match, 0
\* when the loop ended without a return).
AutoSelect(extracted_val, extracted_unit) ==
    LET extracted_val_nm == to_nm(extracted_val, extracted_unit)
        match == FirstMatch(torque_table, extracted_val_nm, 1)
    IN  /\ gui = "idle"
        /\ call = NoCall
        /\ call' = [fn |-> "auto_select_max_torque",
                    extracted_val |-> extracted_val,
                    extracted_unit |-> extracted_unit,
                    extracted_val_nm |-> extracted_val_nm,
                    db_torque_nm |-> Examined(torque_table, match),
                    match |-> match]
        /\ IF match = 0
           THEN UNCHANGED <<selVars, results_by_range>>
           ELSE /\ max_torque_combo' = match - 1
                /\ selected_row' = torque_table[match]
                /\ display_pre_test_rows
        /\ UNCHANGED <<dbVars, serial_worker, port_combo, btnVars, warnings, gui,
                       queue, wVars>>

\* The allowance columns of the entries of the selection.
ProfileBands == <<RangeText(20, 50), RangeText(10, 30), RangeText(10, 30)>>

\* Entries as add_entry stores them: 100 Nm, 110 Nm, 80 "Ft-Lb " (108.4656
\* Nm) and 1000 "in.lbs" (113 Nm).
ProfileRows ==
    { [id |-> 1, max_torque |-> 100, unit |-> <<"N", "m">>,
       allowance |-> ProfileBands],
      [id |-> 2, max_torque |-> 110, unit |-> <<"N", "m">>,
       allowance |-> ProfileBands],
      [id |-> 3, max_torque |-> 80, unit |-> <<"F", "t", "-", "L", "b", " ">>,
       allowance |-> ProfileBands],
      [id |-> 4, max_torque |-> 1000, unit |-> <<"i", "n", ".", "l", "b", "s">>,
       allowance |-> ProfileBands] }

\* How many entries the table has at most.
MaxRows == 3

\* What get_torque_table returns: up to MaxRows entries, each once, in the
\* order of the store.
Tables ==
    UNION { {t \in [1 .. n -> ProfileRows] :
                 \A a, b \in 1 .. n : a # b => t[a] # t[b]} : n \in 0 .. MaxRows }

\* The max torques read off a picture.
ExtractedVals == {1, 10, 80, 100, 110, 1000}

\* The unit texts read off a picture: "nm", " FT-LB ", "in-lb", "ftlb" (in
\* no set), and no text.
ExtractedUnits ==
    { <<"n", "m">>, <<" ", "F", "T", "-", "L", "B", " ">>, <<"i", "n", "-", "l", "b">>,
      <<"f", "t", "l", "b">>, <<>> }

\* The lists of a session that has ended, with a reading delivered after
\* stop_test, or no lists.
LeftResults == {EmptyDict, Put(EmptyDict, RangeText(20, 50), <<20>>)}

\* The application after load_max_torque_dropdown, for each table.
SelectInit ==
    /\ torque_table \in Tables
    /\ serial_ports = <<"COM1">>
    /\ inserted = <<>>
    /\ results_by_range \in LeftResults
    /\ selected_row = IF torque_table = <<>> THEN NoRow ELSE torque_table[1]
    /\ serial_worker = 0
    /\ max_torque_combo = IF torque_table = <<>> THEN -1 ELSE 0
    /\ port_combo = FirstPort(serial_ports)
    /\ start_btn = TRUE
    /\ stop_btn = FALSE
    /\ statusBar = ""
    /\ warnings = {}
    /\ gui = "idle"
    /\ queue = <<>>
    /\ worker = [w \in Workers |-> NoWorker]
    /\ nWorkers = 0
    /\ reads = 0
    /\ call = NoCall

SelectNext ==
    \/ Return
    \/ \E index \in 0 .. MaxRows - 1 : ComboChanged(index)
    \/ \E extracted_val \in ExtractedVals, extracted_unit \in ExtractedUnits :
          AutoSelect(extracted_val, extracted_unit)

\* The selection of a profile, by hand and from a picture.
SelectSpec == SelectInit /\ [][SelectNext]_vars

-----------------------------------------------------------------------------
(* Properties of the calls                                                 *)

\* find_fits_in_selected_row has been called.
FitsCalled == call.fn = "find_fits_in_selected_row"

\* The positions of the fits of band i in a list of fits.
FitsOfBand(fits, i) == {k \in 1 .. Len(fits) : fits[k].allowance_index = i}

\* The value lies in the band of the range text: the text parses to a low
\* and a high, and low <= value <= high.
InBand(value, range_str) ==
    LET r == parse_range(range_str)
    IN  r.ok /\ r.low <= value /\ value <= r.high

\* C12: a value fits a band if and only if the band's range parses to
\* (low, high) and low <= value <= high; the fit list has one fit, with the
\* band's range string, for each such band and nothing else, so a value
\* outside all three bands yields the empty list.
C12_FitIffInBand ==
    FitsCalled =>
        /\ \A i \in 1 .. 3 :
              /\ InBand(call.target, call.row.allowance[i])
                    => Cardinality(FitsOfBand(call.fits, i)) = 1
              /\ ~InBand(call.target, call.row.allowance[i])
                    => FitsOfBand(call.fits, i) = {}
        /\ \A k \in 1 .. Len(call.fits) :
              /\ call.fits[k].allowance_index \in 1 .. 3
              /\ call.fits[k].range_str =
                     call.row.allowance[call.fits[k].allowance_index]
        /\ (\A i \in 1 .. 3 : ~InBand(call.target, call.row.allowance[i]))
              => call.fits = <<>>

\* A value on the low bound of band 1, inside the numbers of band 2, whose
\* text does not parse, and between the bounds of band 3, whose low is above
\* its high: band 1 is the only fit.
C12_Witness ==
    /\ FitsCalled
    /\ call.target = 20
    /\ call.row.allowance =
           <<RangeText(20, 50), <<Dash, Num(10), Dash, Num(30)>>, RangeText(50, 20)>>
    /\ Len(call.fits) = 1
    /\ call.fits[1].allowance_index = 1

\* C13: the fit list has at most three fits, each with diff = |value - (low
\* + high) / 2| (diff is kept in twentieths, the values in tenths), in
\* non-decreasing diff, fits of equal diff in ascending band order.
C13_FitsSortedByDiff ==
    FitsCalled =>
        /\ Len(call.fits) <= 3
        /\ \A k \in 1 .. Len(call.fits) :
              LET r == parse_range(call.fits[k].range_str)
                  twice == 2 * call.target - (r.low + r.high)
              IN  /\ r.ok
                  /\ call.fits[k].diff = IF twice < 0 THEN -twice ELSE twice
        /\ \A a, b \in 1 .. Len(call.fits) :
              a < b =>
                 \/ call.fits[a].diff < call.fits[b].diff
                 \/ /\ call.fits[a].diff = call.fits[b].diff
                    /\ call.fits[a].allowance_index < call.fits[b].allowance_index

\* Three fits that the sort has reordered, two of them of equal diff: the
\* value 3.0 in the bands 2.0 - 5.0 (diff 0.5), 1.0 - 3.0 (diff 1.0) and
\* 2.0 - 5.0 again, listed as bands 1, 3, 2.
C13_Witness ==
    /\ FitsCalled
    /\ call.target = 30
    /\ call.row.allowance = <<RangeText(20, 50), RangeText(10, 30), RangeText(20, 50)>>
    /\ Len(call.fits) = 3
    /\ call.fits[1].allowance_index = 1
    /\ call.fits[2].allowance_index = 3
    /\ call.fits[3].allowance_index = 2
    /\ call.fits[1].diff = 10
    /\ call.fits[2].diff = 10
    /\ call.fits[3].diff = 20

\* auto_fill_allowances_from_applied has filled the three allowance texts.
AllowancesFilled == call.fn = "auto_fill_allowances_from_applied"

\* The fits of a reading equal to target i of the list, in the row of the
\* three allowance texts derived from the list.
FitsOfTarget(i) ==
    find_fits_in_selected_row(10 * call.arr[i],
                              [id |-> 1, allowance |-> call.allowance])

AppliedCalled == call.fn = "calc_applied_torques"

\* How far value i of the list is from max_torque * factor, times 1000.
OffFactor(i, factor) ==
    LET d == 1000 * call.applied_list[i] - call.max_torque * factor
    IN  IF d < 0 THEN -d ELSE d

\* Value i of the list is a multiple of 10 within 5% of max_torque * factor.
WithinFivePercent(i, factor) ==
    /\ call.applied_list[i] % 10 = 0
    /\ 100 * OffFactor(i, factor) <= 5 * call.max_torque * factor

\* Value i of the list is a multiple of 10 within 5 of max_torque * factor,
\* which is within 5% when max_torque * factor is 100 or more.
WithinFive(i, factor) ==
    /\ call.applied_list[i] % 10 = 0
    /\ OffFactor(i, factor) <= 5000
    /\ call.max_torque * factor >= 100000
          => 100 * OffFactor(i, factor) <= 5 * call.max_torque * factor

\* C15: for every max_torque above 0 calc_applied_torques returns 3 values,
\* in the order of the factors 0.916, 0.583, 0.333, each a multiple of 10
\* within 5% of max_torque * factor.
C15_WithinFivePercent ==
    AppliedCalled =>
        /\ Len(call.applied_list) = 3
        /\ WithinFivePercent(1, 916)
        /\ WithinFivePercent(2, 583)
        /\ WithinFivePercent(3, 333)

\* C15, with the bound the rounding to the nearest 10 keeps: 3 values, in
\* the order of the factors 0.916, 0.583, 0.333, each a multiple of 10 within
\* 5 of max_torque * factor.
C15_WithinFive ==
    AppliedCalled =>
        /\ Len(call.applied_list) = 3
        /\ WithinFive(1, 916)
        /\ WithinFive(2, 583)
        /\ WithinFive(3, 333)

\* A max torque of 15 gives 10, 10 and 0 for 13.74, 8.745 and 4.995.
C15_Witness ==
    /\ AppliedCalled
    /\ call.max_torque = 15
    /\ call.applied_list = <<10, 10, 0>>

\* calc_allowance_range has given text i of the list the bounds low and
\* high, in tenths: the numbers with one decimal nearest to applied_val times
\* (1 - tolerance) and (1 + tolerance), tolerance in hundredths.
BandOf(i, tolerance) ==
    \E low \in -120 .. 1200 :
        /\ 10 * low - call.arr[i] * (100 - tolerance) \in -5 .. 5
        /\ \E high \in -120 .. 1200 :
              /\ 10 * high - call.arr[i] * (100 + tolerance) \in -5 .. 5
              /\ call.allowance[i] = FloatText(low) \o <<Dash>> \o FloatText(high)

\* C16: calc_allowance_range(target) yields target * 0.96 and target * 1.04,
\* each rounded to one decimal, for every target >= 10, and target * 0.94 and
\* target * 1.06, each rounded to one decimal, for every target < 10.
C16_ToleranceSwitchAtTen ==
    AllowancesFilled =>
        \A i \in 1 .. 3 :
            /\ call.arr[i] >= 10 => BandOf(i, 4)
            /\ call.arr[i] < 10 => BandOf(i, 6)

\* The targets 10, 9 and 11: 9.6 - 10.4 (4%), 8.5 - 9.5 (6%), 10.6 - 11.4.
C16_Witness ==
    /\ AllowancesFilled
    /\ call.arr = <<10, 9, 11>>
    /\ call.allowance = <<RangeText(96, 104), RangeText(85, 95), RangeText(106, 114)>>

\* auto_select_max_torque has been called.
AutoSelectCalled == call.fn = "auto_select_max_torque"

\* The unit text as typed is text with blanks before and after it, some of
\* its letters capital, that is in the set in lower case.
InSet(unit, synonyms) == Strip(Lower(unit)) \in synonyms

\* The value in 0.00001 Nm: times 1.35582 for a foot-pound unit, times 0.113
\* for an inch-pound unit, unchanged for a newton-metre unit and for a unit
\* in none of the sets.
Normalised(val, unit) ==
    CASE InSet(unit, FT_LB_SYNONYMS) -> val * 135582
      [] ~InSet(unit, FT_LB_SYNONYMS) /\ InSet(unit, IN_LB_SYNONYMS) -> val * 11300
      [] OTHER -> val * 100000

\* C17: the unit text is lower-cased and trimmed, and the value is multiplied
\* by 1.35582 if the text is in the foot-pound set, by 0.113 if it is in the
\* inch-pound set, and left as it is if it is in the newton-metre set or in
\* none; this is done to the extracted value and to the max torque of every
\* stored profile the loop comes to.
C17_UnitNormalisation ==
    AutoSelectCalled =>
        /\ call.extracted_val_nm = Normalised(call.extracted_val, call.extracted_unit)
        /\ Len(call.db_torque_nm) =
               IF call.match = 0 THEN Len(torque_table) ELSE call.match
        /\ \A i \in 1 .. Len(call.db_torque_nm) :
              call.db_torque_nm[i] =
                  Normalised(torque_table[i].max_torque, torque_table[i].unit)

\* 80 " FT-LB " is 108.4656 Nm, 1000 "in.lbs" is 113 Nm, 80 "Ft-Lb " is
\* 108.4656 Nm and 100 "Nm" is 100 Nm.
C17_Witness ==
    /\ AutoSelectCalled
    /\ call.extracted_val = 80
    /\ call.extracted_unit = <<" ", "F", "T", "-", "L", "B", " ">>
    /\ call.extracted_val_nm = 10846560
    /\ Len(torque_table) = 3
    /\ torque_table[1].id = 4
    /\ torque_table[2].id = 3
    /\ torque_table[3].id = 1
    /\ call.db_torque_nm = <<11300000>>

\* A step of auto_select_max_torque from the event loop.
AutoSelected == call = NoCall /\ call'.fn = "auto_select_max_torque"

\* The rows whose normalised max torque differs from the normalised input nm
\* by at most max(0.10 * nm, 2.0).
Qualifying(nm) ==
    {i \in 1 .. Len(torque_table) :
        LET off == Normalised(torque_table[i].max_torque, torque_table[i].unit) - nm
        IN  /\ 10 * off <= (IF nm > 2000000 THEN nm ELSE 2000000)
            /\ -10 * off <= (IF nm > 2000000 THEN nm ELSE 2000000)}

\* C18: auto_select_max_torque selects the first profile in storage order
\* whose normalised max torque differs from the normalised input by at most
\* max(0.10 * normalised input, 2.0): no earlier profile qualifies, and a
\* later one is not selected even if it is closer.
C18_FirstQualifyingProfile ==
    [][ (AutoSelected /\ Qualifying(call'.extracted_val_nm) # {}) =>
            /\ max_torque_combo' + 1 \in Qualifying(call'.extracted_val_nm)
            /\ \A i \in Qualifying(call'.extracted_val_nm) : max_torque_combo' + 1 <= i
            /\ selected_row' = torque_table[max_torque_combo' + 1] ]_vars

\* The table 110 Nm, 80 "Ft-Lb ", 100 Nm and the input 100 nm: 110 Nm is
\* selected, 10 off the input, in front of 80 "Ft-Lb " (8.4656 off) and 100
\* Nm (0 off).
C18_Witness ==
    /\ AutoSelectCalled
    /\ call.extracted_val = 100
    /\ call.extracted_unit = <<"n", "m">>
    /\ Len(torque_table) = 3
    /\ torque_table[1].id = 2
    /\ torque_table[2].id = 3
    /\ torque_table[3].id = 1
    /\ call.match = 1
    /\ max_torque_combo = 0
    /\ selected_row = torque_table[1]

\* C19: when no stored profile is within tolerance of the input,
\* auto_select_max_torque leaves selected_row, the combo index and
\* results_by_range as they were before the call, and returns.
C19_NoMatchKeepsSelection ==
    [][ (AutoSelected /\ Qualifying(call'.extracted_val_nm) = {}) =>
            /\ UNCHANGED <<selected_row, max_torque_combo, results_by_range>>
            /\ call'.match = 0 ]_vars

\* The input 10 nm with the table 100 Nm, 110 Nm: nothing is within 2.0 Nm;
\* the first profile is still selected and the lists still hold a reading.
C19_Witness ==
    /\ AutoSelectCalled
    /\ call.extracted_val = 10
    /\ call.extracted_unit = <<"n", "m">>
    /\ call.match = 0
    /\ Len(torque_table) = 2
    /\ torque_table[1].id = 1
    /\ torque_table[2].id = 2
    /\ max_torque_combo = 0
    /\ selected_row = torque_table[1]
    /\ results_by_range # EmptyDict

\* Worker w reads a line that yields no number in this step.
ReadsNoNumber(w) ==
    /\ worker[w].pc = "read"
    /\ worker'[w].torque_value = NoTorque

\* Worker w reads a line and calls the callback in this step.
CallsBack(w) ==
    /\ worker[w].pc = "read"
    /\ worker'[w].pc = "callback"

\* C20: a line that yields no parseable number is dropped: the loop is at its
\* top again, with the port open and nothing printed, the callback is not
\* called and nothing is emitted, no state of the session or of another
\* worker changes; the callback is called only with the number of a line
\* that has one.
C20_LineWithoutNumberDropped ==
    [][ \A w \in Workers :
          /\ ReadsNoNumber(w) =>
                /\ worker'[w] = [worker[w] EXCEPT !.torque_value = NoTorque,
                                                 !.pc = "check"]
                /\ \A v \in Workers \ {w} : worker'[v] = worker[v]
                /\ UNCHANGED <<queue, results_by_range, inserted, selected_row,
                               max_torque_combo, serial_worker, start_btn,
                               stop_btn, statusBar, warnings, gui, reads>>
          /\ CallsBack(w) =>
                \E text \in Lines :
                    /\ parse_torque_value(text).ok
                    /\ worker'[w].torque_value = parse_torque_value(text).v ]_vars

\* A worker that has just dropped a line, with its port open and its
\* stop_event not set: its next step is the next read.
C20_Witness ==
    \E w \in Workers :
        /\ worker[w].torque_value = NoTorque
        /\ worker[w].pc = "check"
        /\ worker[w].ser = "open"
        /\ ~worker[w].stop_event
        /\ queue = <<>>
        /\ results_by_range = EmptyDict

\* parse_torque_value has been called.
ParseCalled == call.fn = "parse_torque_value"

\* The places of the digits of a line.
DigitAt(line) == {i \in 1 .. Len(line) : line[i] \in Digits}

\* The digits of a line from place i on, up to the first character that is
\* no digit.
RECURSIVE DigitRun(_, _)
DigitRun(line, i) ==
    IF i > Len(line) \/ line[i] \notin Digits THEN <<>>
    ELSE <<line[i]>> \o DigitRun(line, i + 1)

\* The first decimal number of a line that has a digit, in tenths: the run
\* of digits at the first digit, and the first digit after a point that
\* follows the run.
FirstDecimal(line) ==
    LET first == Min(DigitAt(line))
        whole == DigitRun(line, first)
        point == first + Len(whole)
        tenth == IF point < Len(line) /\ line[point] = "."
                    /\ line[point + 1] \in Digits
                 THEN DigitVal(line[point + 1]) ELSE 0
    IN  10 * DigitsValue(whole) + tenth

\* C21: for a line with a decimal number parse_torque_value returns the
\* first number of the line, whatever precedes or follows it, stray points
\* included; it returns None only for a line without a number.
C21_FirstNumberOfLine ==
    ParseCalled =>
        IF DigitAt(call.line) = {}
        THEN ~call.torque_value.ok
        ELSE /\ call.torque_value.ok
             /\ call.torque_value.v = FirstDecimal(call.line)

\* Worker w is inside ser.readline(), or about to call it after the check of
\* stop_event.
AtRead(w) == worker[w].pc = "read"

\* C22: the loop checks stop_event before every read.  Once stop_event is
\* set it stays set; a worker that is not at a read then never comes to one,
\* and a worker that is at a read leaves it with the end of that read: at
\* most one further readline.
C22_OneMoreReadAtMost ==
    [][ \A w \in Workers :
          worker[w].stop_event =>
              /\ worker'[w].stop_event
              /\ ~AtRead(w) => ~AtRead(w)'
              /\ (AtRead(w) /\ worker'[w] # worker[w]) => ~AtRead(w)' ]_vars

\* stop_test has set stop_event and waits while the worker is at the one
\* read it had passed the check for.
C22_Witness ==
    \E w \in Workers :
        /\ worker[w].stop_event
        /\ AtRead(w)
        /\ worker[w].ser = "open"
        /\ gui = "wait"

\* C23: every insert_raw_data call made for a fit carries the id of the
\* profile the reading was classified against, the selected_row of the worker
\* that emitted it, with the band label and the range string of a fit of the
\* reading, also when the selected profile was changed during the session.
C23_RecordCarriesClassifiedProfile ==
    [][ IsDelivery =>
          \A k \in 1 .. Len(inserted') :
              /\ inserted'[k].torque_table_id = worker[queue[1].w].selected_row.id
              /\ \E j \in 1 .. Len(queue[1].fits) :
                    /\ queue[1].fits[j].row.id = inserted'[k].torque_table_id
                    /\ queue[1].fits[j].allowance_index = inserted'[k].allowance_label
                    /\ queue[1].fits[j].range_str = inserted'[k].range_str ]_vars

\* C24: whenever process_reading handles a reading with a fit, a profile is
\* selected, so that the lookup of its id cannot fail, also after entries
\* were deleted during a session, the last one included.
C24_ProfileSelectedAtDelivery ==
    [][ (gui = "idle" /\ queue # <<>> /\ queue' = Tail(queue)
         /\ Head(queue).fits # <<>>)
            => (selected_row # NoRow /\ gui' = "idle") ]_vars

\* start_test marks the session in progress in this step.
MarksInProgress ==
    /\ start_btn /\ ~start_btn'
    /\ stop_btn'
    /\ statusBar' = "Test in progress..."

\* start_test creates and starts a worker in this step.
StartsWorker ==
    /\ nWorkers' = nWorkers + 1
    /\ serial_worker' = nWorkers'
    /\ worker'[serial_worker'].pc = "open"

\* C25: the session is marked in progress (start button disabled, stop
\* button enabled, status 'Test in progress...') only by a start_test that
\* creates and starts a worker; a start_test that returns early leaves the
\* buttons and the status as they were.
C25_InProgressOnlyWithWorker ==
    [][ /\ MarksInProgress => StartsWorker
        /\ (warnings' # warnings) => UNCHANGED btnVars ]_vars

\* The keys of the lists before and after a step.
ListKeys == DOMAIN results_by_range \cup DOMAIN results_by_range'

\* How many of the insert_raw_data calls of a delivery were made for the
\* value and the range string.
Persisted(calls, value, key) ==
    Cardinality({k \in 1 .. Len(calls) :
                    calls[k].torque_value = value /\ calls[k].range_str = key})

\* C26: accepted samples and persisted records are paired one to one.  In
\* every delivery each list grows by the value of the reading once for each
\* insert_raw_data call made for the value and the range string of the list,
\* and in no other way; a delivery in which insert_raw_data raises appends
\* nothing for the call that failed, and leaves the lists as they were when
\* it was the first call.
C26_SamplesPairedWithRecords ==
    [][ IsDelivery =>
          /\ \A key \in ListKeys :
                Get(results_by_range', key) =
                    Get(results_by_range, key)
                        \o Repeat(Head(queue).value,
                                  Persisted(inserted', Head(queue).value, key))
          /\ \A k \in 1 .. Len(inserted') :
                inserted'[k].torque_value = Head(queue).value
          /\ (gui' = "IOException" /\ inserted' = <<>>)
                => results_by_range' = results_by_range ]_vars

\* insert_raw_data has raised for the second fit of a reading of 2.0: the
\* first fit was recorded and appended, the second was not.
C26_Witness ==
    /\ gui = "IOException"
    /\ Len(inserted) = 1
    /\ inserted[1].torque_value = 20
    /\ Get(results_by_range, inserted[1].range_str) = <<20>>
    /\ \A key \in DOMAIN results_by_range :
          key # inserted[1].range_str => results_by_range[key] = <<>>

\* C27: the delivery of one reading appends its value at most once to any
\* one list, also for a profile in which two bands have one range string and
\* so share one key of results_by_range.
C27_OnceInEachList ==
    [][ IsDelivery =>
          \A key \in DOMAIN results_by_range' :
              Len(results_by_range'[key]) <= Len(Get(results_by_range, key)) + 1 ]_vars

\* The thread of worker w is inside the loop of read_from_serial.
InLoop(w) == worker[w].pc \in {"check", "read", "callback", "emit"}

\* C28: on every exit of read_from_serial after the port was opened (stop
\* requested, read error, exception of the callback) the port is closed, it
\* is closed once, from open, and the thread does nothing after the close;
\* when the open fails the thread ends with no read and no close.
C28_PortClosedOnceOnExit ==
    [][ \A w \in Workers :
          /\ (InLoop(w) /\ worker'[w].pc = "done")
                => (worker[w].ser = "open" /\ worker'[w].ser = "closed")
          /\ (worker[w].ser # "closed" /\ worker'[w].ser = "closed")
                => (worker[w].ser = "open" /\ worker'[w].pc = "done")
          /\ worker[w].ser \in {"closed", "failed"}
                => /\ worker[w].pc = "done"
                   /\ worker'[w] = [worker[w] EXCEPT
                                       !.stop_event = worker'[w].stop_event]
          /\ InLoop(w)' => worker'[w].ser = "open" ]_vars

\* The callback of a worker has raised with the reading 2.0: the thread has
\* ended and its port is closed.
C28_Witness ==
    \E w \in Workers :
        /\ worker[w].pc = "done"
        /\ worker[w].ser = "closed"
        /\ worker[w].torque_value = 20
        /\ worker[w].console # <<>>

\* Sequence s begins with sequence t.
BeginsWith(s, t) == Len(t) <= Len(s) /\ SubSeq(s, 1, Len(t)) = t

\* Every list is what it was, with values appended at its end.
ListsOnlyGrow ==
    \A key \in DOMAIN results_by_range :
        BeginsWith(Get(results_by_range', key), results_by_range[key])

\* All lists are empty: the reset of display_pre_test_rows.
ListsReset == \A key \in DOMAIN results_by_range' : results_by_range'[key] = <<>>

\* The emissions are delivered in the order they were posted: the queue
\* loses its first element or gains a last one.
InArrivalOrder ==
    \/ queue' = queue
    \/ queue # <<>> /\ queue' = Tail(queue)
    \/ Len(queue') = Len(queue) + 1 /\ BeginsWith(queue', queue)

\* C29: within a session each list is a subsequence of the readings of the
\* session in arrival order.  Readings are delivered in the order they were
\* emitted; a list changes only by a value appended at its end, or by the
\* reset of all lists; a reading is appended to a list once at most; and a
\* value appended during a session is a reading of the worker of that
\* session.
C29_ListsFollowSessionStream ==
    [][ /\ InArrivalOrder
        /\ ListsOnlyGrow \/ ListsReset
        /\ IsDelivery
              => \A key \in DOMAIN results_by_range :
                    Len(Get(results_by_range', key)) <= Len(results_by_range[key]) + 1
        /\ (IsDelivery /\ InSession /\ results_by_range' # results_by_range)
              => Head(queue).w = serial_worker ]_vars

\* The two bounds calc_allowance_range computes for a target, in tenths.
AllowanceLow(applied_val) ==
    PyRound(applied_val * (100 - Tolerance(applied_val)), 10)

AllowanceHigh(applied_val) ==
    PyRound(applied_val * (100 + Tolerance(applied_val)), 10)

\* C30: for every applied-torque target, 0 and the negative targets of a
\* max torque that is not positive included, the range text built by
\* calc_allowance_range parses through parse_range to the pair (low, high)
\* it was built from, and low <= high.
C30_RangeTextParsesBack ==
    AllowancesFilled =>
        \A i \in 1 .. 3 :
            LET r == parse_range(call.allowance[i])
            IN  /\ r.ok
                /\ r.low = AllowanceLow(call.arr[i])
                /\ r.high = AllowanceHigh(call.arr[i])
                /\ r.low <= r.high

====
